---- MODULE Spec2Model ----
(***************************************************************************)
(* Alert lifecycle engine of CRYPTO_MONITOR: the price_alerts table of     *)
(* src/src/db.rs, the price source of src/src/crypto_api.rs, the monitor   *)
(* loop of src/src/monitor.rs and the alert wizards of src/src/bot.rs.     *)
(*                                                                         *)
(* Prices, targets and ratios are f64 in the source; here they are         *)
(* fixed-point integers in thousandths (1000 is 1.0), and every comparison *)
(* of a percentage is cross-multiplied so that it is exact.  An optional   *)
(* value (Option<T>, a NULL column, a Result's Ok payload) is the empty    *)
(* set or a singleton.                                                      *)
(***************************************************************************)
EXTENDS Integers, Sequences, FiniteSets, TLC

VARIABLES
    price_alerts,   \* the price_alerts table: id -> row
    next_id,        \* the table's AUTOINCREMENT counter
    symbol_to_id,   \* CryptoAPI.symbol_to_id (its key set)
    now,            \* Utc::now().timestamp()
    pc,             \* where PriceMonitor::start stands: start, idle, fetch, notify,
                    \* mark, done; returned (with Err), cancelled (dropped)
    elapsed,        \* the instant the interval of start waits for has come
    alerts,         \* the snapshot get_active_alerts returned to this tick
    idx,            \* position of the for loop in alerts
    fidx,           \* which of the alert's price requests is being fetched
    attempt,        \* requests already sent by the running get_price_from_exchange
    prices,         \* results of the alert's finished fetches, in order
    evald,          \* history: the evaluation just finished
    tickLog,        \* history: the eval / notify / mark calls for the alert just handled
    evals,          \* history: alerts evaluated so far in the running tick
    failed,         \* history: a notify or mark call failed in the running tick
    markedOk,       \* history: ids for which mark_alert_triggered returned Ok
    notified,       \* history: ids send_alert_notification was called for in
                    \* the running tick, in order
    user_states,    \* the user_states table: chat_id -> UserState
    last,           \* history: the update the bot handled last, and its outcome
    queue,          \* updates of a chat the dispatcher has not handed out yet
    workers,        \* handler runs in flight, each at one of its awaits
    results         \* history: the Results of the handler runs that ended

vars == <<price_alerts, next_id, symbol_to_id, now, pc, elapsed, alerts, idx,
          fidx, attempt, prices, evald, tickLog, evals, failed, markedOk, notified,
          user_states, last, queue, workers, results>>

storeVars == <<price_alerts, next_id>>
loopVars == <<pc, elapsed, alerts, idx, fidx, attempt, prices, evald, tickLog,
              evals, failed, markedOk, notified>>
dispatchVars == <<queue, workers, results>>
wizVars == <<user_states, last, queue, workers, results>>

----------------------------------------------------------------------------
(* Bounds of the model *)

\* Alerts ever saved (ids are never reused).
MaxAlerts == 2

\* The clock stops at this instant.
MaxTime == 2

----------------------------------------------------------------------------
(* Values *)

None == {}

Some(v) == {v}

IsSome(o) == o # {}

Unwrap(o) == CHOOSE v \in o : TRUE

Abs(x) == IF x < 0 THEN -x ELSE x

\* Prices a source may answer, in thousandths: 0.995, 1.0, 1.02.
PriceSet == {995, 1000, 1020}

\* users rows: (id, telegram_chat_id).  User 2 registered from a chat whose
\* id differs from the user's own id; the chat of user 3 has the id 2.
Users == { [id |-> 1, telegram_chat_id |-> Some(1)],
           [id |-> 2, telegram_chat_id |-> Some(7)],
           [id |-> 3, telegram_chat_id |-> Some(2)] }

PriceType(t, c) == [type |-> "Price", target_price |-> t, condition |-> c]

DepegType(t, d, ex) ==
    [type |-> "Depeg", target_price |-> t, differential |-> d, exchanges |-> ex]

PairDepegType(t1, t2, r, d) ==
    [type |-> "PairDepeg", token1 |-> t1, token2 |-> t2,
     expected_ratio |-> r, differential |-> d]

\* A PriceAlert as a caller of save_alert builds it.
NewAlert(user_id, symbol, alert_type) ==
    [user_id |-> user_id, symbol |-> symbol, alert_type |-> alert_type,
     triggered_at |-> None, is_active |-> TRUE]

\* The PriceAlert values handed to save_alert by the wizards and the API.
AlertInputs ==
    { NewAlert(1, "BTC", PriceType(1000, "Above")),
      NewAlert(2, "BTC", PriceType(1000, "Below")),
      NewAlert(1, "USDT", DepegType(1000, 1, <<"binance", "coinbase">>)),
      NewAlert(1, "BTC/ETH", PairDepegType("BTC", "ETH", 1000, 1)) }

\* UserState of src/src/models.rs, one constructor for each wizard.
PriceState(step, symbol, target_price, condition) ==
    [kind |-> "CreatingPriceAlert", step |-> step, symbol |-> symbol,
     target_price |-> target_price, condition |-> condition]

DepegState(step, symbol, target_price, differential, exchanges) ==
    [kind |-> "CreatingDepegAlert", step |-> step, symbol |-> symbol,
     target_price |-> target_price, differential |-> differential,
     exchanges |-> exchanges]

\* Faulty variant: the two tokens are stored crossed.
PairState_crossed(step, token1, token2, expected_ratio, differential) ==
    [kind |-> "CreatingPairAlert", step |-> step, token1 |-> token2,
     token2 |-> token1, expected_ratio |-> expected_ratio,
     differential |-> differential]

PairState(step, token1, token2, expected_ratio, differential) ==
    [kind |-> "CreatingPairAlert", step |-> step, token1 |-> token1,
     token2 |-> token2, expected_ratio |-> expected_ratio,
     differential |-> differential]

\* The user_states table the process finds when it starts: empty, or the
\* row of a chat that stood at the last step of a Price wizard.
InitialUserStates ==
    { <<>>,
      (7 :> PriceState("SelectCondition", Some("BTC"), Some(2000), None)) }

----------------------------------------------------------------------------
(* AlertStore: src/src/db.rs *)

\* Faulty variant: DROP TABLE IF EXISTS, then CREATE TABLE.
drop_and_create_table(existing) == <<>>

\* CREATE TABLE IF NOT EXISTS of Database::new: a table the file already has
\* is left with its rows, a missing one is created empty.
create_table_if_not_exists(existing) ==
    IF existing = None THEN <<>> ELSE Unwrap(existing)

\* Faulty variant: triggered_at and is_active are inserted as the caller
\* gave them.
save_alert_as_given(table, id, alert, ts) ==
    [i \in DOMAIN table \cup {id} |->
        IF i = id
        THEN [id |-> id, user_id |-> alert.user_id, symbol |-> alert.symbol,
              alert_type |-> alert.alert_type, created_at |-> ts,
              triggered_at |-> alert.triggered_at, is_active |-> alert.is_active]
        ELSE table[i]]

\* INSERT INTO price_alerts (user_id, symbol, alert_type, created_at): the
\* columns triggered_at and is_active take their defaults, NULL and 1.
save_alert(table, id, alert, ts) ==
    [i \in DOMAIN table \cup {id} |->
        IF i = id
        THEN [id |-> id, user_id |-> alert.user_id, symbol |-> alert.symbol,
              alert_type |-> alert.alert_type, created_at |-> ts,
              triggered_at |-> None, is_active |-> TRUE]
        ELSE table[i]]

\* WHERE is_active = 1 AND triggered_at IS NULL
IsActiveRow(row) == row.is_active /\ row.triggered_at = None

RECURSIVE RowsById(_, _)
RowsById(table, ids) ==
    IF ids = {} THEN <<>>
    ELSE LET m == CHOOSE i \in ids : \A j \in ids : i <= j
         IN <<table[m]>> \o RowsById(table, ids \ {m})

\* Faulty variant: the WHERE clause is dropped.
get_active_alerts_nofilter(table) == RowsById(table, DOMAIN table)

get_active_alerts(table) ==
    RowsById(table, {i \in DOMAIN table : IsActiveRow(table[i])})

\* Faulty variant: the UPDATE sets triggered_at and leaves is_active.
mark_alert_triggered_keeps_active(table, alert_id, ts) ==
    [i \in DOMAIN table |->
        IF i = alert_id THEN [table[i] EXCEPT !.triggered_at = Some(ts)]
        ELSE table[i]]

\* Faulty variant: the UPDATE has no WHERE clause.
mark_alert_triggered_all(table, alert_id, ts) ==
    [i \in DOMAIN table |->
        [table[i] EXCEPT !.triggered_at = Some(ts), !.is_active = FALSE]]

\* Faulty variant: the row is written anew, created_at included.
mark_alert_triggered_replace(table, alert_id, ts) ==
    [i \in DOMAIN table |->
        IF i = alert_id
        THEN [table[i] EXCEPT !.triggered_at = Some(ts), !.is_active = FALSE,
                              !.created_at = ts]
        ELSE table[i]]

\* UPDATE price_alerts SET triggered_at = ?, is_active = 0 WHERE id = ?
mark_alert_triggered(table, alert_id, ts) ==
    [i \in DOMAIN table |->
        IF i = alert_id
        THEN [table[i] EXCEPT !.triggered_at = Some(ts), !.is_active = FALSE]
        ELSE table[i]]

\* Faulty variant: the failed write has already set triggered_at.
mark_alert_triggered_err_partial(table, alert_id, ts) ==
    mark_alert_triggered_keeps_active(table, alert_id, ts)

\* conn.execute(...)? of mark_alert_triggered returns Err: the one UPDATE
\* statement has changed no row.
mark_alert_triggered_err(table, alert_id, ts) == table

\* DELETE FROM price_alerts WHERE id = ?
delete_alert(table, alert_id) ==
    [i \in DOMAIN table \ {alert_id} |-> table[i]]

\* SELECT * FROM users WHERE telegram_chat_id = ?
get_user_by_telegram_id(chat_id) ==
    {u \in Users : u.telegram_chat_id = Some(chat_id)}

----------------------------------------------------------------------------
(* PriceSource: src/src/crypto_api.rs *)

\* Faulty variant: the retry loop runs over 0..=MAX_RETRIES.
MAX_RETRIES_inclusive == 3 + 1

\* Faulty variant: the retry loop gives up after the second request.
MAX_RETRIES_two == 3 - 1

MAX_RETRIES == 3

\* CONFIG.exchanges
supported_exchanges == {"binance"}

\* CONFIG.cryptocurrencies
cryptocurrencies == {"BTC", "ETH", "RUNE", "MATIC", "SOL"}

\* The symbols of CONFIG.cryptocurrencies and CONFIG.stablecoins the alerts use.
ConfiguredSymbols == {"BTC", "ETH", "USDT"}

\* The guards of get_price_from_exchange before its retry loop.
Accepted(symbol, exchange) ==
    exchange \in supported_exchanges /\ symbol \in symbol_to_id

----------------------------------------------------------------------------
(* AlertEvaluator: src/src/monitor.rs *)

\* Faulty variant: the comparisons admit equality.
should_trigger_alert_or_equal(price, alert_type) ==
    IF alert_type.condition = "Above"
    THEN price >= alert_type.target_price
    ELSE price <= alert_type.target_price

\* should_trigger_alert, Price arm.
should_trigger_alert(price, alert_type) ==
    IF alert_type.condition = "Above"
    THEN price > alert_type.target_price
    ELSE price < alert_type.target_price

\* The Depeg arm of check_all_alerts fires as soon as one price was fetched.
depeg_fires(okPrices, alert_type) == okPrices # <<>>

\* Faulty variant: the deviation is compared with 0.0, as check_depeg_alert does.
pair_fires_any_deviation(p1, p2, alert_type) ==
    Abs(1000 * p1 - alert_type.expected_ratio * p2) * 100 > 0

\* ((p1 / p2 - r) / r).abs() * 100 > d, cross-multiplied (p2 > 0, r > 0).
pair_fires(p1, p2, alert_type) ==
    Abs(1000 * p1 - alert_type.expected_ratio * p2) * 100
        > alert_type.differential * alert_type.expected_ratio * p2

\* Faulty variant: the loop over the exchanges stops at the first Err.
depeg_loop_stops_on_err(i, exchanges, res) == i >= Len(exchanges) \/ res = None

\* for exchange in exchanges: the loop ends after the last exchange, whatever
\* the fetches returned.
depeg_loop_ends(i, exchanges, res) == i >= Len(exchanges)

\* max_price / min_price / trigger_price of the Depeg arm: the fetched price
\* farthest from the target, the lowest one on a tie.
RECURSIVE SeqMax(_)
SeqMax(s) ==
    IF Len(s) = 1 THEN s[1]
    ELSE LET m == SeqMax(Tail(s)) IN IF s[1] > m THEN s[1] ELSE m

RECURSIVE SeqMin(_)
SeqMin(s) ==
    IF Len(s) = 1 THEN s[1]
    ELSE LET m == SeqMin(Tail(s)) IN IF s[1] < m THEN s[1] ELSE m

trigger_price(okPrices, alert_type) ==
    LET max_price == SeqMax(okPrices)
        min_price == SeqMin(okPrices)
    IN IF Abs(max_price - alert_type.target_price)
            > Abs(min_price - alert_type.target_price)
       THEN max_price
       ELSE min_price

----------------------------------------------------------------------------
(* MonitorLoop: PriceMonitor::start and check_all_alerts *)

\* const MAX_RETRIES of NotificationService::verify_bot
VERIFY_MAX_RETRIES == 3

\* verify_bot: get_me is called until it answers or MAX_RETRIES calls have
\* failed; answers[i] tells whether the i-th call is answered.
verify_bot(answers) == \E i \in 1..VERIFY_MAX_RETRIES : answers[i]

\* What follows verify_bot in start: its Err is logged and returned.
AfterVerify(ok) == IF ok THEN "idle" ELSE "returned"

\* Faulty variant: every completed interval tick spawns its own check.
TickReady_spawned == elapsed

\* interval.tick().await: the loop of start is back at it, and the instant
\* the interval waits for has come.
TickReady == pc = "idle" /\ elapsed

\* get_price(symbol) is get_price_from_exchange(symbol, "binance").
Req(symbol, exchange) == [symbol |-> symbol, exchange |-> exchange]

\* The price requests one alert makes, in the order the code makes them.
Requests(alert) ==
    LET t == alert.alert_type
    IN CASE t.type = "Price" -> <<Req(alert.symbol, "binance")>>
         [] t.type = "Depeg" ->
                [i \in 1..Len(t.exchanges) |-> Req(alert.symbol, t.exchanges[i])]
         [] t.type = "PairDepeg" ->
                <<Req(t.token1, "binance"), Req(t.token2, "binance")>>

\* prices.push(price.price) for every Ok fetch.
RECURSIVE OkPrices(_)
OkPrices(samples) ==
    IF samples = <<>> THEN <<>>
    ELSE (IF IsSome(samples[1].price) THEN <<Unwrap(samples[1].price)>> ELSE <<>>)
         \o OkPrices(Tail(samples))

\* Faulty variant: a firing alert is marked without being notified.
AfterEval_mark_first(fired) == IF fired THEN "mark" ELSE "next"

\* What follows the evaluation of an alert: the notification when it fires.
AfterEval(fired) == IF fired THEN "notify" ELSE "next"

\* What follows send_alert_notification: its Err is logged, the mark is issued.
AfterNotify(ok) == "mark"

\* Faulty variant: the Err of mark_alert_triggered is propagated with `?`.
AfterMark_propagate(ok) == IF ok THEN "next" ELSE "abort"

\* Faulty variant: after a failed mark the alert is notified and marked anew.
AfterMark_renotify(ok) == IF ok THEN "next" ELSE "notify"

\* What follows mark_alert_triggered: its Err is logged, the loop goes on.
AfterMark(ok) == "next"

\* Faulty variant: start propagates the Err of check_all_alerts with `?`.
AfterTick_propagate(ok) == IF ok THEN "idle" ELSE "returned"

\* What follows check_all_alerts in the loop of start: its Err is logged and
\* the loop goes back to interval.tick().
AfterTick(ok) == "idle"

Current == alerts[idx]

Event(op, id, ok) == [op |-> op, id |-> id, ok |-> ok]

\* The for loop moves to the next alert of the snapshot, or the tick ends.
NextAlert ==
    /\ fidx' = 1
    /\ attempt' = 0
    /\ prices' = <<>>
    /\ IF idx < Len(alerts)
       THEN idx' = idx + 1 /\ pc' = "fetch"
       ELSE idx' = 0 /\ pc' = "done"

\* check_all_alerts returns early.
AbortTick ==
    /\ fidx' = 1
    /\ attempt' = 0
    /\ prices' = <<>>
    /\ idx' = 0
    /\ pc' = "done"

Goto(where) ==
    CASE where = "next" -> NextAlert
      [] where = "abort" -> AbortTick
      [] OTHER -> /\ pc' = where
                  /\ UNCHANGED <<idx, fidx, attempt, prices>>

\* The alert's evaluation is finished with the given samples and verdict.
Evaluated(samples, fired, price) ==
    /\ evald' = Some([alert |-> Current, samples |-> samples,
                      fired |-> fired, price |-> price])
    /\ tickLog' = <<Event("eval", Current.id, fired)>>
    /\ evals' = evals + 1
    /\ Goto(AfterEval(fired))

\* One call of get_price_from_exchange has returned res (None: Err).
FetchReturn(res, sent) ==
    LET t == Current.alert_type
        samples == Append(prices, [price |-> res, attempts |-> sent])
        more == /\ fidx' = fidx + 1
                /\ attempt' = 0
                /\ prices' = samples
                /\ evald' = None
                /\ tickLog' = <<>>
                /\ UNCHANGED <<pc, idx, evals>>
    IN CASE t.type = "Price" ->
                IF IsSome(res)
                THEN Evaluated(samples, should_trigger_alert(Unwrap(res), t), res)
                ELSE Evaluated(samples, FALSE, None)
         [] t.type = "Depeg" ->
                IF ~depeg_loop_ends(fidx, t.exchanges, res)
                THEN more
                ELSE LET ok == OkPrices(samples)
                     IN IF depeg_fires(ok, t)
                        THEN Evaluated(samples, TRUE, Some(trigger_price(ok, t)))
                        ELSE Evaluated(samples, FALSE, None)
         [] t.type = "PairDepeg" ->
                IF ~IsSome(res)
                THEN Evaluated(samples, FALSE, None)
                ELSE IF fidx = 1
                     THEN more
                     ELSE LET p1 == Unwrap(samples[1].price)
                              p2 == Unwrap(samples[2].price)
                          IN Evaluated(samples, pair_fires(p1, p2, t), None)

----------------------------------------------------------------------------
(* Actions *)

\* CryptoAPI::new builds symbol_to_id empty, and get_price_from_exchange then
\* refuses every symbol; tests::test_get_price_from_exchange expects the
\* configured symbols to be known.  Both maps are initial states.
\* The process after main has built its parts on a database file without
\* tables.
Boot ==
    /\ price_alerts = create_table_if_not_exists(None)
    /\ next_id = 1
    /\ symbol_to_id \in {{}, ConfiguredSymbols}
    /\ now = 1
    /\ pc = "start"
    /\ elapsed = FALSE
    /\ alerts = <<>>
    /\ idx = 0
    /\ fidx = 1
    /\ attempt = 0
    /\ prices = <<>>
    /\ evald = None
    /\ tickLog = <<>>
    /\ evals = 0
    /\ failed = FALSE
    /\ markedOk = {}
    /\ notified = <<>>
    /\ last = None
    /\ queue = <<>>
    /\ workers = {}
    /\ results = <<>>

Init == Boot /\ user_states = create_table_if_not_exists(None)

\* The clock advances.
ClockTick ==
    /\ now < MaxTime
    /\ now' = now + 1
    /\ UNCHANGED symbol_to_id
    /\ UNCHANGED storeVars
    /\ UNCHANGED loopVars
    /\ UNCHANGED wizVars

\* The period of the interval of start has passed once more, whatever the
\* loop is doing; a tick that is due stays due until the loop takes it.
IntervalElapses ==
    /\ pc \notin {"start", "returned", "cancelled"}
    /\ ~elapsed
    /\ elapsed' = TRUE
    /\ UNCHANGED <<symbol_to_id, now, pc, alerts, idx, fidx, attempt, prices,
                   evald, tickLog, evals, failed, markedOk, notified>>
    /\ UNCHANGED storeVars
    /\ UNCHANGED wizVars

\* PriceMonitor::start up to its loop: verify_bot, then time::interval, whose
\* first tick completes at once.
StartMonitor ==
    /\ pc = "start"
    /\ \E answers \in [1..VERIFY_MAX_RETRIES -> BOOLEAN] :
          /\ pc' = AfterVerify(verify_bot(answers))
          /\ elapsed' = (pc' = "idle")
    /\ UNCHANGED <<symbol_to_id, now, alerts, idx, fidx, attempt, prices, evald,
                   tickLog, evals, failed, markedOk, notified>>
    /\ UNCHANGED storeVars
    /\ UNCHANGED wizVars

\* main sends the shutdown signal: the select! of the monitor task takes the
\* rx.recv() branch and drops the future of start at the await where it
\* stands.  An UPDATE already handed to the connection's thread may still be
\* executed before the process ends, or may not.
Shutdown ==
    /\ pc \notin {"returned", "cancelled"}
    /\ pc' = "cancelled"
    /\ elapsed' = FALSE
    /\ alerts' = <<>>
    /\ idx' = 0
    /\ fidx' = 1
    /\ attempt' = 0
    /\ prices' = <<>>
    /\ evald' = None
    /\ evals' = 0
    /\ notified' = <<>>
    /\ \/ UNCHANGED price_alerts
       \/ /\ pc = "mark"
          /\ price_alerts' = mark_alert_triggered(price_alerts, Current.id, now)
    /\ UNCHANGED <<next_id, symbol_to_id, now, tickLog, failed, markedOk>>
    /\ UNCHANGED wizVars

\* The process ends and is started again on the same database file:
\* Database::new creates the tables that are missing, everything held in
\* memory starts anew.
Restart ==
    /\ price_alerts' = create_table_if_not_exists(Some(price_alerts))
    /\ user_states' = create_table_if_not_exists(Some(user_states))
    /\ pc' = "start"
    /\ elapsed' = FALSE
    /\ alerts' = <<>>
    /\ idx' = 0
    /\ fidx' = 1
    /\ attempt' = 0
    /\ prices' = <<>>
    /\ evald' = None
    /\ tickLog' = <<>>
    /\ evals' = 0
    /\ failed' = FALSE
    /\ notified' = <<>>
    /\ last' = None
    /\ queue' = <<>>
    /\ workers' = {}
    /\ results' = <<>>
    /\ UNCHANGED <<next_id, symbol_to_id, now, markedOk>>

\* A wizard or the API stores a new alert.
SaveAlert ==
    /\ next_id <= MaxAlerts
    /\ \E alert \in AlertInputs :
          price_alerts' = save_alert(price_alerts, next_id, alert, now)
    /\ next_id' = next_id + 1
    /\ UNCHANGED <<symbol_to_id, now>>
    /\ UNCHANGED loopVars
    /\ UNCHANGED wizVars

\* The owner deletes an alert.
DeleteAlert ==
    /\ \E id \in DOMAIN price_alerts :
          price_alerts' = delete_alert(price_alerts, id)
    /\ UNCHANGED <<next_id, symbol_to_id, now>>
    /\ UNCHANGED loopVars
    /\ UNCHANGED wizVars

\* interval.tick() fires and check_all_alerts reads the active alerts.
TickBegin ==
    /\ TickReady
    /\ elapsed' = FALSE
    /\ alerts' = get_active_alerts(price_alerts)
    /\ tickLog' = <<>>
    /\ fidx' = 1
    /\ attempt' = 0
    /\ prices' = <<>>
    /\ IF alerts' = <<>>
       THEN idx' = 0 /\ pc' = "done"
       ELSE idx' = 1 /\ pc' = "fetch"
    /\ UNCHANGED <<symbol_to_id, now, evald, evals, failed, markedOk, notified>>
    /\ UNCHANGED storeVars
    /\ UNCHANGED wizVars

\* check_all_alerts has returned: its snapshot is dropped, start logs an Err
\* and waits for the next interval tick.
TickEnd ==
    /\ pc = "done"
    /\ pc' = AfterTick(tickLog # <<Event("get_active_alerts", 0, FALSE)>>)
    /\ alerts' = <<>>
    /\ tickLog' = <<>>
    /\ evald' = None
    /\ evals' = 0
    /\ failed' = FALSE
    /\ notified' = <<>>
    /\ UNCHANGED <<symbol_to_id, now, idx, fidx, attempt, prices, markedOk>>
    /\ UNCHANGED storeVars
    /\ UNCHANGED elapsed
    /\ UNCHANGED wizVars

\* get_active_alerts fails: check_all_alerts returns the error, start logs it.
TickBeginErr ==
    /\ TickReady
    /\ elapsed' = FALSE
    /\ pc' = "done"
    /\ tickLog' = <<Event("get_active_alerts", 0, FALSE)>>
    /\ UNCHANGED <<symbol_to_id, now, markedOk, notified>>
    /\ UNCHANGED <<alerts, idx, fidx, attempt, prices, evald, evals, failed>>
    /\ UNCHANGED storeVars
    /\ UNCHANGED wizVars

\* get_price_from_exchange refuses the exchange or the symbol before any request.
FetchReject ==
    /\ pc = "fetch"
    /\ LET r == Requests(Current)[fidx]
       IN /\ ~Accepted(r.symbol, r.exchange)
          /\ FetchReturn(None, 0)
    /\ UNCHANGED <<symbol_to_id, now, alerts, failed, markedOk, notified>>
    /\ UNCHANGED storeVars
    /\ UNCHANGED elapsed
    /\ UNCHANGED wizVars

\* One request of the retry loop is answered with a price.
FetchOk ==
    /\ pc = "fetch"
    /\ attempt < MAX_RETRIES
    /\ LET r == Requests(Current)[fidx]
       IN /\ Accepted(r.symbol, r.exchange)
          /\ \E p \in PriceSet : FetchReturn(Some(p), attempt + 1)
    /\ UNCHANGED <<symbol_to_id, now, alerts, failed, markedOk, notified>>
    /\ UNCHANGED storeVars
    /\ UNCHANGED elapsed
    /\ UNCHANGED wizVars

\* One request of the retry loop fails (connection, status, body).
FetchFail ==
    /\ pc = "fetch"
    /\ attempt < MAX_RETRIES
    /\ LET r == Requests(Current)[fidx]
       IN /\ Accepted(r.symbol, r.exchange)
          /\ IF attempt + 1 < MAX_RETRIES
             THEN /\ attempt' = attempt + 1
                  /\ evald' = None
                  /\ tickLog' = <<>>
                  /\ UNCHANGED <<pc, idx, fidx, prices, evals>>
             ELSE FetchReturn(None, attempt + 1)
    /\ UNCHANGED <<symbol_to_id, now, alerts, failed, markedOk, notified>>
    /\ UNCHANGED storeVars
    /\ UNCHANGED elapsed
    /\ UNCHANGED wizVars

\* The chat send_alert_notification hands to send_alert: telegram_chat_id, or
\* 0, of the user that get_user_by_telegram_id(alert.user_id) finds.
recipient(alert) ==
    { IF IsSome(u.telegram_chat_id) THEN Unwrap(u.telegram_chat_id) ELSE 0 :
        u \in get_user_by_telegram_id(alert.user_id) }

\* send_alert can deliver only to a user found by the lookup, with a chat id > 0.
Deliverable(alert) ==
    \E u \in get_user_by_telegram_id(alert.user_id) :
        IsSome(u.telegram_chat_id) /\ Unwrap(u.telegram_chat_id) > 0

\* send_alert_notification: the user lookup, then NotificationService::send_alert.
Notify ==
    /\ pc = "notify"
    /\ \E ok \in BOOLEAN :
          /\ ok => Deliverable(Current)
          /\ tickLog' = Append(tickLog, Event("notify", Current.id, ok))
          /\ failed' = (failed \/ ~ok)
          /\ Goto(AfterNotify(ok))
    /\ notified' = Append(notified, Current.id)
    /\ UNCHANGED <<symbol_to_id, now, alerts, evald, evals, markedOk>>
    /\ UNCHANGED storeVars
    /\ UNCHANGED elapsed
    /\ UNCHANGED wizVars

\* mark_alert_triggered(alert.id) succeeds.
MarkOk ==
    /\ pc = "mark"
    /\ price_alerts' = mark_alert_triggered(price_alerts, Current.id, now)
    /\ markedOk' = markedOk \cup {Current.id}
    /\ tickLog' = Append(tickLog, Event("mark", Current.id, TRUE))
    /\ Goto(AfterMark(TRUE))
    /\ UNCHANGED <<next_id, symbol_to_id, now, alerts, evald, evals, failed, notified>>
    /\ UNCHANGED elapsed
    /\ UNCHANGED wizVars

\* mark_alert_triggered(alert.id) fails: the row is left as it was.
MarkErr ==
    /\ pc = "mark"
    /\ tickLog' = Append(tickLog, Event("mark", Current.id, FALSE))
    /\ failed' = TRUE
    /\ Goto(AfterMark(FALSE))
    /\ price_alerts' = mark_alert_triggered_err(price_alerts, Current.id, now)
    /\ UNCHANGED <<next_id, symbol_to_id, now, alerts, evald, evals, markedOk,
                   notified>>
    /\ UNCHANGED elapsed
    /\ UNCHANGED wizVars

Next ==
    \/ StartMonitor
    \/ IntervalElapses
    \/ Shutdown
    \/ Restart
    \/ SaveAlert
    \/ DeleteAlert
    \/ TickBegin
    \/ TickBeginErr
    \/ TickEnd
    \/ FetchReject
    \/ FetchOk
    \/ FetchFail
    \/ Notify
    \/ MarkOk
    \/ MarkErr

Spec == Init /\ [][Next]_vars

\* One life of the process under a scheduler that is fair to the monitor
\* task: an interval that is awaited elapses, a tick that is due is taken,
\* and a check_all_alerts that has finished returns.
LiveNext ==
    \/ StartMonitor
    \/ IntervalElapses
    \/ Shutdown
    \/ SaveAlert
    \/ DeleteAlert
    \/ TickBegin
    \/ TickBeginErr
    \/ TickEnd
    \/ FetchReject
    \/ FetchOk
    \/ FetchFail
    \/ Notify
    \/ MarkOk
    \/ MarkErr

LiveSpec ==
    /\ Init
    /\ [][LiveNext]_vars
    /\ WF_vars(IntervalElapses)
    /\ WF_vars(TickBegin \/ TickBeginErr)
    /\ WF_vars(TickEnd)

\* The monitor with the clock running, started on a database file that may
\* hold a conversation state, with a price source that knows the symbols.
ClockInit ==
    /\ Boot
    /\ user_states \in InitialUserStates
    /\ symbol_to_id = ConfiguredSymbols

ClockNext ==
    \/ ClockTick
    \/ Next

ClockSpec == ClockInit /\ [][ClockNext]_vars

----------------------------------------------------------------------------
(* ConversationStateMachine: src/src/bot.rs over the user_states table *)

\* Alerts the wizards ever save.
MaxWizardAlerts == 1

\* The chat that talks to the bot: the one of user 2, whose chat id is not
\* the user's id.
Chats == {7}

\* Data of the symbol_ buttons: BTC (price keyboard, CONFIG.cryptocurrencies),
\* USDT (depeg keyboard, CONFIG.stablecoins), DAI (depeg keyboard only).
SymbolButtons == {"BTC", "USDT", "DAI"}

\* CONFIG.cryptocurrencies and CONFIG.stablecoins
SupportedSymbols == {"BTC", "ETH", "RUNE", "MATIC", "SOL", "USDT", "USDC", "BUSD"}

\* Data of the condition_ buttons, and one that no button carries.
ConditionButtons == {"above", "below", "equal"}

\* Data of the pair_ callbacks: a configured pair, a pair that is not
\* configured, and data without a second token.
PairButtons == {"BTC_USDT", "DOGE_SHIB", "BTC"}

\* CONFIG.synthetic_pairs, as callback data
SupportedPairs == {"BTC_USDT", "ETH_USDT", "RUNE_USDT"}

\* Data of the depegdiff_ and pairdiff_ buttons, and one that is no number.
DiffButtons == {"1", "x"}

\* Text messages.
Texts == {"1.02", "2", "abc", "NaN"}

\* Texts that are decimal numbers.
NumericTexts == {"1.02", "1", "2"}

\* f64::NAN, which str::parse::<f64> returns for the text NaN.  No price,
\* ratio or differential of the model is negative.
NaN == -1

\* The calls of a handler that can fail; a handler run fails at most one.
Fails == {"none", "get_user_state", "save_user_state", "get_user_by_chat_id",
          "save_alert", "send_message", "clear_user_state",
          "answer_callback_query"}

\* Faulty variant: text that is no number is read as 0.0.
parse_f64_or_zero(text) ==
    CASE text = "1.02" -> Some(1020)
      [] text = "1" -> Some(1000)
      [] text = "2" -> Some(2000)
      [] text = "NaN" -> Some(NaN)
      [] OTHER -> Some(0)

\* str::parse::<f64>, in thousandths.
parse_f64(text) ==
    CASE text = "1.02" -> Some(1020)
      [] text = "1" -> Some(1000)
      [] text = "2" -> Some(2000)
      [] text = "NaN" -> Some(NaN)
      [] OTHER -> None

\* A differential is kept in whole percents, as in AlertInputs.
Percent(v) == v \div 1000

\* Faulty variant: the two arms are exchanged.
condition_of_swapped(data) ==
    CASE data = "above" -> Some("Below")
      [] data = "below" -> Some("Above")
      [] OTHER -> None

\* match s.trim_start_matches("condition_")
condition_of(data) ==
    CASE data = "above" -> Some("Above")
      [] data = "below" -> Some("Below")
      [] OTHER -> None

\* Faulty variant: the tokens come out in the opposite order.
split_once_swapped(data) ==
    CASE data = "BTC_USDT" -> Some(<<"USDT", "BTC">>)
      [] data = "DOGE_SHIB" -> Some(<<"SHIB", "DOGE">>)
      [] OTHER -> None

\* s.trim_start_matches("pair_").replace("_", "/").split_once('/')
split_once(data) ==
    CASE data = "BTC_USDT" -> Some(<<"BTC", "USDT">>)
      [] data = "DOGE_SHIB" -> Some(<<"DOGE", "SHIB">>)
      [] OTHER -> None

\* format!("{}/{}", token1, token2)
PairSymbol(token1, token2) == token1 \o "/" \o token2

\* Faulty variant: the depeg alert gets the configured exchanges.
depeg_exchanges_configured == <<"binance">>

\* vec!["binance", "coinbase"] of the depegdiff_ arm
depeg_exchanges == <<"binance", "coinbase">>

\* Faulty variant: INSERT ... ON CONFLICT(chat_id) DO NOTHING
save_user_state_keep(table, chat_id, state) ==
    [c \in DOMAIN table \cup {chat_id} |->
        IF c \in DOMAIN table THEN table[c] ELSE state]

\* An Option<f64> written by serde_json::to_string and read back by
\* serde_json::from_str: a value that is not finite is written as null, and
\* null is read as None.
json_f64(o) == IF o = Some(NaN) THEN None ELSE o

\* A UserState as get_user_state reads it after save_user_state has written it.
json_state(state) ==
    CASE state.kind = "CreatingPriceAlert" ->
             [state EXCEPT !.target_price = json_f64(@)]
      [] state.kind = "CreatingDepegAlert" ->
             [state EXCEPT !.target_price = json_f64(@),
                           !.differential = json_f64(@)]
      [] state.kind = "CreatingPairAlert" ->
             [state EXCEPT !.expected_ratio = json_f64(@),
                           !.differential = json_f64(@)]

\* serde_json::to_string(&state), then
\* INSERT INTO user_states ... ON CONFLICT(chat_id) DO UPDATE SET state = ?2
save_user_state(table, chat_id, state) ==
    [c \in DOMAIN table \cup {chat_id} |->
        IF c = chat_id THEN json_state(state) ELSE table[c]]

\* SELECT state FROM user_states WHERE chat_id = ?
get_user_state(table, chat_id) ==
    IF chat_id \in DOMAIN table THEN Some(table[chat_id]) ELSE None

\* Faulty variant: DELETE FROM user_states, without the WHERE clause.
clear_user_state_all(table, chat_id) == <<>>

\* DELETE FROM user_states WHERE chat_id = ?
clear_user_state(table, chat_id) ==
    [c \in DOMAIN table \ {chat_id} |-> table[c]]

\* What a handler run leaves: the two tables, its Result and the message sent.
Out(us, pa, nid, result, reply) ==
    [user_states |-> us, price_alerts |-> pa, next_id |-> nid,
     result |-> result, reply |-> reply]

\* The handler returns without a write.
Same(result, reply) == Out(user_states, price_alerts, next_id, result, reply)

\* bot.answer_callback_query(query.id).await? after the match of handle_callback
answer_callback_query(o, fail) ==
    IF o.result = "Ok" /\ fail = "answer_callback_query"
    THEN [o EXCEPT !.result = "Err"]
    ELSE o

\* save_user_state(chat, new_state)?, then the prompt of the new step.
Transition(chat, new_state, fail) ==
    IF fail = "save_user_state"
    THEN Same("Err", "none")
    ELSE LET us == save_user_state(user_states, chat, new_state)
         IN IF fail = "send_message"
            THEN Out(us, price_alerts, next_id, "Err", "none")
            ELSE Out(us, price_alerts, next_id, "Ok", "prompt")

\* The tail of the three final arms: get_user_by_chat_id?, save_alert, the
\* confirmation message?, clear_user_state?.
Complete(chat, symbol, alert_type, fail) ==
    LET found == get_user_by_telegram_id(chat)
    IN IF fail = "get_user_by_chat_id" \/ found = {}
       THEN Same("Err", "none")
       ELSE LET alert == NewAlert(Unwrap(found).id, symbol, alert_type)
                pa == save_alert(price_alerts, next_id, alert, now)
            IN IF fail = "save_alert"
               THEN Same("Ok", "error")
               ELSE IF fail = "send_message"
               THEN Out(user_states, pa, next_id + 1, "Err", "none")
               ELSE IF fail = "clear_user_state"
               THEN Out(user_states, pa, next_id + 1, "Err", "created")
               ELSE Out(clear_user_state(user_states, chat), pa, next_id + 1,
                        "Ok", "created")

\* "create_price_alert"
create_price_alert(chat, fail) ==
    Transition(chat, PriceState("SelectSymbol", None, None, None), fail)

\* "create_depeg_alert", and handle_depeg of the /depeg command
create_depeg_alert(chat, fail) ==
    Transition(chat, DepegState("SelectSymbol", None, None, None, None), fail)

\* "create_pair_alert", and handle_pair_depeg of the /pairdepeg command
create_pair_alert(chat, fail) ==
    Transition(chat, PairState("SelectToken1", None, None, None, None), fail)

\* s if s.starts_with("symbol_")
symbol_callback(chat, symbol, fail) ==
    IF fail = "get_user_state"
    THEN Same("Err", "none")
    ELSE LET state == get_user_state(user_states, chat)
         IN IF state = None
            THEN Same("Ok", "none")
            ELSE LET st == Unwrap(state)
                 IN IF st.kind = "CreatingPriceAlert" /\ st.step = "SelectSymbol"
                    THEN Transition(chat,
                             PriceState("EnterPrice", Some(symbol), None, None), fail)
                    ELSE IF st.kind = "CreatingDepegAlert" /\ st.step = "SelectSymbol"
                    THEN Transition(chat,
                             DepegState("EnterDifferential", Some(symbol),
                                        Some(1000), None, None), fail)
                    ELSE Same("Ok", "none")

\* s if s.starts_with("condition_")
condition_callback(chat, data, fail) ==
    LET condition == condition_of(data)
    IN IF condition = None
       THEN Same("Ok", "none")
       ELSE IF fail = "get_user_state"
       THEN Same("Err", "none")
       ELSE LET state == get_user_state(user_states, chat)
            IN IF state = None
               THEN Same("Ok", "none")
               ELSE LET st == Unwrap(state)
                    IN IF /\ st.kind = "CreatingPriceAlert"
                          /\ IsSome(st.symbol) /\ IsSome(st.target_price)
                       THEN Complete(chat, Unwrap(st.symbol),
                                PriceType(Unwrap(st.target_price), Unwrap(condition)),
                                fail)
                       ELSE Same("Ok", "none")

\* s if s.starts_with("pair_")
pair_callback(chat, data, fail) ==
    IF fail = "get_user_state"
    THEN Same("Err", "none")
    ELSE LET state == get_user_state(user_states, chat)
         IN IF state = None
            THEN Same("Ok", "none")
            ELSE LET st == Unwrap(state)
                 IN IF st.kind = "CreatingPairAlert" /\ st.step = "SelectToken1"
                    THEN LET tokens == split_once(data)
                         IN IF tokens = None
                            THEN Same("Err", "none")
                            ELSE Transition(chat,
                                     PairState("EnterRatio",
                                               Some(Unwrap(tokens)[1]),
                                               Some(Unwrap(tokens)[2]), None, None),
                                     fail)
                    ELSE Same("Ok", "none")

\* s if s.starts_with("pairdiff_")
pairdiff_callback(chat, data, fail) ==
    LET diff == parse_f64(data)
    IN IF diff = None
       THEN Same("Err", "none")
       ELSE IF fail = "get_user_state"
       THEN Same("Err", "none")
       ELSE LET state == get_user_state(user_states, chat)
            IN IF state = None
               THEN Same("Ok", "none")
               ELSE LET st == Unwrap(state)
                    IN IF /\ st.kind = "CreatingPairAlert"
                          /\ IsSome(st.token1) /\ IsSome(st.token2)
                          /\ IsSome(st.expected_ratio)
                       THEN Complete(chat,
                                PairSymbol(Unwrap(st.token1), Unwrap(st.token2)),
                                PairDepegType(Unwrap(st.token1), Unwrap(st.token2),
                                              Unwrap(st.expected_ratio),
                                              Percent(Unwrap(diff))),
                                fail)
                       ELSE Same("Ok", "none")

\* Faulty variant: the arm takes the symbol of a Price wizard as well.
depegdiff_callback_any_kind(chat, data, fail) ==
    LET diff == parse_f64(data)
    IN IF diff = None
       THEN Same("Err", "none")
       ELSE IF fail = "get_user_state"
       THEN Same("Err", "none")
       ELSE LET state == get_user_state(user_states, chat)
            IN IF state = None
               THEN Same("Ok", "none")
               ELSE LET st == Unwrap(state)
                    IN IF st.kind # "CreatingPairAlert" /\ IsSome(st.symbol)
                       THEN Complete(chat, Unwrap(st.symbol),
                                DepegType(1000, Percent(Unwrap(diff)), depeg_exchanges),
                                fail)
                       ELSE Same("Ok", "none")

\* s if s.starts_with("depegdiff_")
depegdiff_callback(chat, data, fail) ==
    LET diff == parse_f64(data)
    IN IF diff = None
       THEN Same("Err", "none")
       ELSE IF fail = "get_user_state"
       THEN Same("Err", "none")
       ELSE LET state == get_user_state(user_states, chat)
            IN IF state = None
               THEN Same("Ok", "none")
               ELSE LET st == Unwrap(state)
                    IN IF st.kind = "CreatingDepegAlert" /\ IsSome(st.symbol)
                       THEN Complete(chat, Unwrap(st.symbol),
                                DepegType(1000, Percent(Unwrap(diff)), depeg_exchanges),
                                fail)
                       ELSE Same("Ok", "none")

\* A text reply that is not a number: the step is described again.
Invalid(fail) ==
    IF fail = "send_message" THEN Same("Err", "none") ELSE Same("Ok", "invalid")

\* handle_message: a text that is no command
handle_message(chat, text, fail) ==
    IF fail = "get_user_state"
    THEN Same("Err", "none")
    ELSE LET state == get_user_state(user_states, chat)
         IN IF state = None
            THEN Same("Ok", "none")
            ELSE LET st == Unwrap(state)
                     number == parse_f64(text)
                 IN IF st.kind = "CreatingPriceAlert" /\ st.step = "EnterPrice"
                    THEN IF IsSome(number)
                         THEN Transition(chat,
                                  PriceState("SelectCondition", st.symbol, number, None),
                                  fail)
                         ELSE Invalid(fail)
                    ELSE IF st.kind = "CreatingPairAlert" /\ st.step = "EnterRatio"
                    THEN IF IsSome(number)
                         THEN Transition(chat,
                                  PairState("EnterDifferential", st.token1, st.token2,
                                            number, None),
                                  fail)
                         ELSE Invalid(fail)
                    ELSE Same("Ok", "none")

\* The dispatcher hands one update to its handler, which runs to its end.
\* last keeps the update, the handler's Result and message, the chat's state
\* as it was before, and the ids of the alerts the run added.
Handle(op, chat, input, o) ==
    /\ o.next_id <= MaxWizardAlerts + 1
    /\ user_states' = o.user_states
    /\ price_alerts' = o.price_alerts
    /\ next_id' = o.next_id
    /\ last' = Some([op |-> op, chat |-> chat, input |-> input,
                     result |-> o.result, reply |-> o.reply,
                     before |-> get_user_state(user_states, chat),
                     saved |-> DOMAIN o.price_alerts \ DOMAIN price_alerts])
    /\ UNCHANGED <<symbol_to_id, now>>
    /\ UNCHANGED loopVars
    /\ UNCHANGED dispatchVars

\* handle_callback: the arm that matches the data, then answer_callback_query;
\* the condition_ arm returns before it when it does not know the condition.
handle_callback(chat, op, data, fail) ==
    IF op = "condition_" /\ condition_of(data) = None
    THEN condition_callback(chat, data, fail)
    ELSE answer_callback_query(
             CASE op = "create_price_alert" -> create_price_alert(chat, fail)
               [] op = "create_depeg_alert" -> create_depeg_alert(chat, fail)
               [] op = "create_pair_alert" -> create_pair_alert(chat, fail)
               [] op = "symbol_" -> symbol_callback(chat, data, fail)
               [] op = "condition_" -> condition_callback(chat, data, fail)
               [] op = "pair_" -> pair_callback(chat, data, fail)
               [] op = "pairdiff_" -> pairdiff_callback(chat, data, fail)
               [] op = "depegdiff_" -> depegdiff_callback(chat, data, fail),
             fail)

\* The runs of handle_callback on one update, over the call that fails.
CallbackRuns(chat, op, data) ==
    { handle_callback(chat, op, data, fail) : fail \in Fails }

CreatePriceAlert ==
    \E chat \in Chats :
        \E o \in CallbackRuns(chat, "create_price_alert", "") :
            Handle("create_price_alert", chat, "", o)

CreateDepegAlert ==
    \E chat \in Chats :
        \E o \in CallbackRuns(chat, "create_depeg_alert", "") :
            Handle("create_depeg_alert", chat, "", o)

CreatePairAlert ==
    \E chat \in Chats :
        \E o \in CallbackRuns(chat, "create_pair_alert", "") :
            Handle("create_pair_alert", chat, "", o)

SymbolCallback ==
    \E chat \in Chats, symbol \in SymbolButtons :
        \E o \in CallbackRuns(chat, "symbol_", symbol) :
            Handle("symbol_", chat, symbol, o)

ConditionCallback ==
    \E chat \in Chats, data \in ConditionButtons :
        \E o \in CallbackRuns(chat, "condition_", data) :
            Handle("condition_", chat, data, o)

PairCallback ==
    \E chat \in Chats, data \in PairButtons :
        \E o \in CallbackRuns(chat, "pair_", data) :
            Handle("pair_", chat, data, o)

PairDiffCallback ==
    \E chat \in Chats, data \in DiffButtons :
        \E o \in CallbackRuns(chat, "pairdiff_", data) :
            Handle("pairdiff_", chat, data, o)

DepegDiffCallback ==
    \E chat \in Chats, data \in DiffButtons :
        \E o \in CallbackRuns(chat, "depegdiff_", data) :
            Handle("depegdiff_", chat, data, o)

HandleMessage ==
    \E chat \in Chats, text \in Texts :
        \E o \in { handle_message(chat, text, fail) : fail \in Fails } :
            Handle("message", chat, text, o)

\* The bot alone: no monitor tick runs, the price source is never asked.
WizardInit == Init /\ symbol_to_id = {}

WizardNext ==
    \/ Restart
    \/ CreatePriceAlert
    \/ CreateDepegAlert
    \/ CreatePairAlert
    \/ SymbolCallback
    \/ ConditionCallback
    \/ PairCallback
    \/ PairDiffCallback
    \/ DepegDiffCallback
    \/ HandleMessage

WizardSpec == WizardInit /\ [][WizardNext]_vars

\* A second chat, the one of user 1, that talks to the bot at the same time.
OtherChats == {1}

\* The chat of user 1 starts a Pair wizard or chooses its pair.
OtherSession ==
    \E chat \in OtherChats :
        \/ \E o \in CallbackRuns(chat, "create_pair_alert", "") :
               Handle("create_pair_alert", chat, "", o)
        \/ \E data \in PairButtons :
               \E o \in CallbackRuns(chat, "pair_", data) :
                   Handle("pair_", chat, data, o)

\* Two chats in their wizards, their updates handled in any order.
SessionNext ==
    \/ OtherSession
    \/ WizardNext

SessionSpec == WizardInit /\ [][SessionNext]_vars

----------------------------------------------------------------------------
(* Dispatcher: the condition_ arm of handle_callback, one await at a time *)

\* Updates Telegram ever delivers to the dispatcher.
MaxUpdates == 2

\* condition_ callbacks that were delivered: waiting, in flight or ended.
Delivered == Len(queue) + Cardinality(workers) + Len(results)

\* Faulty variant: every update gets a task of its own at once.
may_start_concurrent(chat) == TRUE

\* The Dispatcher built in run hands the updates of one chat to one worker,
\* which runs the handler of an update to its end before it takes the next.
may_start(chat) == \A w \in workers : w.update.chat # chat

Worker(update, at, state, saved) ==
    [update |-> update, at |-> at, state |-> state, saved |-> saved]

\* The handler run w goes on to its next await.
Await(w, at, state, saved) ==
    /\ workers' = (workers \ {w}) \cup {Worker(w.update, at, state, saved)}
    /\ UNCHANGED <<queue, results>>

\* The handler run w returns.
Return(w, result) ==
    /\ workers' = workers \ {w}
    /\ results' = Append(results, [update |-> w.update, result |-> result,
                                    saved |-> w.saved])
    /\ UNCHANGED queue

\* Telegram delivers a condition_ callback of a chat.
Deliver ==
    /\ Delivered < MaxUpdates
    /\ \E chat \in Chats, data \in ConditionButtons :
          queue' = Append(queue, [update_id |-> Delivered + 1, chat |-> chat,
                                  data |-> data])
    /\ UNCHANGED <<workers, results, user_states, last, symbol_to_id, now>>
    /\ UNCHANGED storeVars
    /\ UNCHANGED loopVars

\* The dispatcher starts handle_callback on the update at the head of the
\* queue; a condition that is neither above nor below returns at once.
Dispatch ==
    /\ queue # <<>>
    /\ may_start(Head(queue).chat)
    /\ queue' = Tail(queue)
    /\ IF condition_of(Head(queue).data) = None
       THEN /\ results' = Append(results, [update |-> Head(queue),
                                           result |-> "Ok", saved |-> FALSE])
            /\ UNCHANGED workers
       ELSE /\ workers' = workers \cup
                              {Worker(Head(queue), "get_user_state", None, FALSE)}
            /\ UNCHANGED results
    /\ UNCHANGED <<user_states, last, symbol_to_id, now>>
    /\ UNCHANGED storeVars
    /\ UNCHANGED loopVars

\* self.db.get_user_state(chat).await? and the two if let that follow it.
AwaitGetUserState ==
    /\ \E w \in workers :
          /\ w.at = "get_user_state"
          /\ \/ Return(w, "Err")
             \/ LET state == get_user_state(user_states, w.update.chat)
                    collected == \E st \in state :
                                    /\ st.kind = "CreatingPriceAlert"
                                    /\ IsSome(st.symbol) /\ IsSome(st.target_price)
                IN IF collected
                   THEN Await(w, "get_user_by_chat_id", state, FALSE)
                   ELSE Await(w, "answer_callback_query", state, FALSE)
    /\ UNCHANGED <<user_states, last, symbol_to_id, now>>
    /\ UNCHANGED storeVars
    /\ UNCHANGED loopVars

\* self.get_user_by_chat_id(chat).await?
AwaitGetUser ==
    /\ \E w \in workers :
          /\ w.at = "get_user_by_chat_id"
          /\ \/ Return(w, "Err")
             \/ /\ get_user_by_telegram_id(w.update.chat) # {}
                /\ Await(w, "save_alert", w.state, FALSE)
    /\ UNCHANGED <<user_states, last, symbol_to_id, now>>
    /\ UNCHANGED storeVars
    /\ UNCHANGED loopVars

\* match self.db.save_alert(alert).await: the alert is built from the state
\* the run read at its start.
AwaitSaveAlert ==
    /\ \E w \in workers :
          /\ w.at = "save_alert"
          /\ \/ /\ Await(w, "send_message", w.state, FALSE)
                /\ UNCHANGED storeVars
             \/ LET st == Unwrap(w.state)
                    user == Unwrap(get_user_by_telegram_id(w.update.chat))
                    alert == NewAlert(user.id, Unwrap(st.symbol),
                                      PriceType(Unwrap(st.target_price),
                                                Unwrap(condition_of(w.update.data))))
                IN /\ price_alerts' = save_alert(price_alerts, next_id, alert, now)
                   /\ next_id' = next_id + 1
                   /\ Await(w, "send_message", w.state, TRUE)
    /\ UNCHANGED <<user_states, last, symbol_to_id, now>>
    /\ UNCHANGED loopVars

\* bot.send_message(...).await? of either arm of the match.
AwaitSendMessage ==
    /\ \E w \in workers :
          /\ w.at = "send_message"
          /\ \/ Return(w, "Err")
             \/ IF w.saved
                THEN Await(w, "clear_user_state", w.state, w.saved)
                ELSE Await(w, "answer_callback_query", w.state, w.saved)
    /\ UNCHANGED <<user_states, last, symbol_to_id, now>>
    /\ UNCHANGED storeVars
    /\ UNCHANGED loopVars

\* self.db.clear_user_state(chat).await?
AwaitClearUserState ==
    /\ \E w \in workers :
          /\ w.at = "clear_user_state"
          /\ \/ /\ Return(w, "Err")
                /\ UNCHANGED user_states
             \/ /\ user_states' = clear_user_state(user_states, w.update.chat)
                /\ Await(w, "answer_callback_query", w.state, w.saved)
    /\ UNCHANGED <<last, symbol_to_id, now>>
    /\ UNCHANGED storeVars
    /\ UNCHANGED loopVars

\* bot.answer_callback_query(query.id).await?, then Ok(())
AwaitAnswerCallbackQuery ==
    /\ \E w \in workers :
          /\ w.at = "answer_callback_query"
          /\ \E result \in {"Ok", "Err"} : Return(w, result)
    /\ UNCHANGED <<user_states, last, symbol_to_id, now>>
    /\ UNCHANGED storeVars
    /\ UNCHANGED loopVars

\* The bot alone, fed with condition_ callbacks.
DispatchInit ==
    /\ Boot
    /\ user_states \in InitialUserStates
    /\ symbol_to_id = {}

DispatchNext ==
    \/ Deliver
    \/ Dispatch
    \/ AwaitGetUserState
    \/ AwaitGetUser
    \/ AwaitSaveAlert
    \/ AwaitSendMessage
    \/ AwaitClearUserState
    \/ AwaitAnswerCallbackQuery

DispatchSpec == DispatchInit /\ [][DispatchNext]_vars

----------------------------------------------------------------------------
(* Requests on stored alerts: the delete_ callback of src/src/bot.rs, and   *)
(* create_alert and delete_alert of src/src/api/handlers.rs                *)

\* Data of the delete_ callbacks: two alert ids, and one that is no number.
DeleteButtons == {"1", "2", "x"}

\* The calls of the handlers of these requests that can fail.
DeleteFails == {"none", "get_user_by_chat_id", "get_alert", "delete_alert",
                "save_alert", "send_message", "answer_callback_query"}

\* The alert bodies the API receives: the caller chooses is_active and
\* triggered_at as well.
AlertBodies ==
    { [a EXCEPT !.is_active = active, !.triggered_at = triggered] :
        a \in AlertInputs, active \in BOOLEAN, triggered \in {None, Some(1)} }

\* str::parse::<i64>
parse_i64(data) ==
    CASE data = "1" -> Some(1)
      [] data = "2" -> Some(2)
      [] OTHER -> None

\* SELECT ... FROM price_alerts WHERE id = ?
get_alert(table, alert_id) ==
    IF alert_id \in DOMAIN table THEN Some(table[alert_id]) ELSE None

\* s if s.starts_with("delete_"): the id is parsed, the user of the chat is
\* looked up, and the alert of that id is deleted.
delete_callback(chat, data, fail) ==
    LET alert_id == parse_i64(data)
    IN IF alert_id = None
       THEN Same("Err", "none")
       ELSE IF fail = "get_user_by_chat_id" \/ get_user_by_telegram_id(chat) = {}
       THEN Same("Err", "none")
       ELSE IF fail = "delete_alert"
       THEN Same("Ok", "error")
       ELSE LET pa == delete_alert(price_alerts, Unwrap(alert_id))
            IN IF fail = "send_message"
               THEN Out(user_states, pa, next_id, "Err", "none")
               ELSE answer_callback_query(
                        Out(user_states, pa, next_id, "Ok", "deleted"), fail)

\* delete_alert of the API, for the user verify_api_key has found.
api_delete_alert(user, alert_id, fail) ==
    IF fail = "get_alert"
    THEN Same("INTERNAL_SERVER_ERROR", "none")
    ELSE LET alert == get_alert(price_alerts, alert_id)
         IN IF alert = None
            THEN Same("NOT_FOUND", "none")
            ELSE IF Unwrap(alert).user_id # user.id
            THEN Same("FORBIDDEN", "none")
            ELSE IF fail = "delete_alert"
            THEN Same("INTERNAL_SERVER_ERROR", "none")
            ELSE Out(user_states, delete_alert(price_alerts, alert_id), next_id,
                     "NO_CONTENT", "none")

\* create_alert of the API, for the user verify_api_key has found: the
\* body's user_id and created_at are overwritten, the rest is handed on.
api_create_alert(user, body, fail) ==
    LET alert == [body EXCEPT !.user_id = user.id]
    IN IF fail = "save_alert"
       THEN Same("INTERNAL_SERVER_ERROR", "none")
       ELSE Out(user_states, save_alert(price_alerts, next_id, alert, now),
                next_id + 1, "CREATED", "none")

\* A request was handled.  last keeps the request, the ids of the users it
\* came from, its outcome, the rows it removed and the ids it added.
Requested(op, users, input, o) ==
    /\ o.next_id <= MaxAlerts + 1
    /\ price_alerts' = o.price_alerts
    /\ next_id' = o.next_id
    /\ last' = Some([op |-> op, users |-> users, input |-> input,
                     result |-> o.result,
                     deleted |-> {price_alerts[id] :
                                     id \in DOMAIN price_alerts \ DOMAIN o.price_alerts},
                     saved |-> DOMAIN o.price_alerts \ DOMAIN price_alerts])
    /\ UNCHANGED <<symbol_to_id, now, user_states>>
    /\ UNCHANGED loopVars
    /\ UNCHANGED dispatchVars

ApiCreateAlert ==
    \E user \in Users, body \in AlertBodies, fail \in DeleteFails :
        Requested("api_create_alert", {user.id}, body,
                  api_create_alert(user, body, fail))

DeleteCallback ==
    \E chat \in Chats \cup OtherChats, data \in DeleteButtons, fail \in DeleteFails :
        Requested("delete_", {u.id : u \in get_user_by_telegram_id(chat)}, data,
                  delete_callback(chat, data, fail))

ApiDeleteAlert ==
    \E user \in Users, alert_id \in 1..MaxAlerts, fail \in DeleteFails :
        Requested("api_delete_alert", {user.id}, alert_id,
                  api_delete_alert(user, alert_id, fail))

\* Alerts are created and deleted by requests; the monitor does not run.
StoreInit == Init /\ symbol_to_id = {}

StoreNext ==
    \/ ApiCreateAlert
    \/ DeleteCallback
    \/ ApiDeleteAlert

StoreSpec == StoreInit /\ [][StoreNext]_vars

----------------------------------------------------------------------------
(* Properties *)

SnapshotIds == {alerts[i].id : i \in 1..Len(alerts)}

IsPrice(e) == e.alert.alert_type.type = "Price"

IsDepeg(e) == e.alert.alert_type.type = "Depeg"

IsPairDepeg(e) == e.alert.alert_type.type = "PairDepeg"

\* The alert just evaluated was not notified, not marked, and is still active.
LeftActive(e) ==
    /\ pc \in {"fetch", "done"}
    /\ tickLog = <<Event("eval", e.alert.id, FALSE)>>
    /\ e.alert.id \notin markedOk
    /\ e.alert.id \in DOMAIN price_alerts => IsActiveRow(price_alerts[e.alert.id])

\* C1: once mark_alert_triggered has succeeded for an alert, no later
\* get_active_alerts returns it and no notification is sent for it again.
C1_IdempotentTrigger ==
    [][ /\ alerts' # alerts => \A i \in 1..Len(alerts') : alerts'[i].id \notin markedOk
        /\ (Len(tickLog') = Len(tickLog) + 1 /\ tickLog'[Len(tickLog')].op = "notify")
              => tickLog'[Len(tickLog')].id \notin markedOk ]_vars

\* A later tick runs on a snapshot that leaves out a marked alert still stored.
C1_Witness ==
    /\ pc = "notify"
    /\ \E id \in markedOk : id \in DOMAIN price_alerts /\ id \notin SnapshotIds

\* C2: every stored alert is inactive exactly when its triggered_at is set.
C2_ActiveIffNotTriggered ==
    \A id \in DOMAIN price_alerts :
        (price_alerts[id].is_active = FALSE) <=> (price_alerts[id].triggered_at # None)

\* One alert was marked after another one was saved and deleted.
C2_Witness ==
    /\ \E id \in DOMAIN price_alerts : price_alerts[id].triggered_at # None
    /\ \E id \in 1..(next_id - 1) : id \notin DOMAIN price_alerts

\* max over the sources that answered of |price - target| / target * 100 > differential
DeviationExceeds(okPrices, t) ==
    \E i \in 1..Len(okPrices) :
        Abs(okPrices[i] - t.target_price) * 100 > t.differential * t.target_price

\* C3: a Depeg alert is triggered iff the deviation over the sources that
\* returned a sample exceeds the alert's differential.
C3_DepegIffDeviation ==
    \A e \in evald :
        IsDepeg(e) =>
            (e.fired <=> DeviationExceeds(OkPrices(e.samples), e.alert.alert_type))

\* C4: a Price alert triggers iff the fetched price is above (Above) or below
\* (Below) the target; a price equal to the target triggers neither.
C4_PriceCondition ==
    \A e \in evald :
        (IsPrice(e) /\ IsSome(e.samples[1].price)) =>
            LET p == Unwrap(e.samples[1].price)
                t == e.alert.alert_type
            IN /\ t.condition = "Above" => (e.fired <=> p > t.target_price)
               /\ t.condition = "Below" => (e.fired <=> p < t.target_price)
               /\ p = t.target_price => ~e.fired
               /\ e.fired => pc = "notify" \/ Len(tickLog) > 1

\* An Above alert fired on a price over its target and is being notified.
C4_Witness ==
    \E e \in evald :
        /\ IsPrice(e) /\ e.alert.alert_type.condition = "Above"
        /\ e.samples[1].price = Some(1020)
        /\ e.fired /\ pc = "notify"

\* |priceA / priceB - expectedRatio| / expectedRatio * 100 > differentialPct
PairDeviationExceeds(pa, pb, t) ==
    LET lhs == Abs(pa * 1000 - pb * t.expected_ratio) * 100
        rhs == t.differential * pb * t.expected_ratio
    IN lhs > rhs

\* C5: a PairDepeg alert triggers iff both token prices were obtained and the
\* ratio's deviation exceeds the differential; with a price missing the alert
\* is not notified, not marked and stays active.
C5_PairDepeg ==
    \A e \in evald :
        IsPairDepeg(e) =>
            LET both == /\ Len(e.samples) = 2
                        /\ IsSome(e.samples[1].price)
                        /\ IsSome(e.samples[2].price)
            IN /\ e.fired <=> (both /\ PairDeviationExceeds(Unwrap(e.samples[1].price),
                                                            Unwrap(e.samples[2].price),
                                                            e.alert.alert_type))
               /\ ~both => LeftActive(e)

\* tokenA at 1.0 and tokenB at 1.02 against an expected ratio of 1.0 within 1%.
C5_Witness ==
    \E e \in evald :
        /\ IsPairDepeg(e) /\ Len(e.samples) = 2
        /\ e.samples[1].price = Some(1000) /\ e.samples[2].price = Some(1020)
        /\ e.fired /\ pc = "notify"

\* C6: a Depeg source that fails is left out and the other sources are still
\* queried and used; with no sample at all the alert is not notified, not
\* marked and stays active.
C6_DepegPartialData ==
    \A e \in evald :
        IsDepeg(e) =>
            LET ok == OkPrices(e.samples)
            IN /\ Len(e.samples) = Len(e.alert.alert_type.exchanges)
               /\ ok = <<>> => (~e.fired /\ LeftActive(e))
               /\ ok # <<>> =>
                    /\ \E i \in 1..Len(ok) : e.price = Some(ok[i])
                    /\ \A i \in 1..Len(ok) :
                          Abs(ok[i] - e.alert.alert_type.target_price)
                              <= Abs(Unwrap(e.price) - e.alert.alert_type.target_price)

\* binance failed three times, coinbase was still queried, nothing was notified.
C6_Witness ==
    \E e \in evald :
        /\ IsDepeg(e) /\ Len(e.samples) = 2
        /\ e.samples[1] = [price |-> None, attempts |-> 3]
        /\ ~e.fired

\* C7: an alert is marked triggered only after its notification was delivered.
C7_NoSilentMiss ==
    \A i \in 1..Len(tickLog) :
        tickLog[i].op = "mark" =>
            \E j \in 1..(i - 1) :
                tickLog[j] = Event("notify", tickLog[i].id, TRUE)

\* C8: the mark of an alert is issued only after a notification attempt for
\* that alert in the same tick.
C8_NotifyBeforeMark ==
    \A i \in 1..Len(tickLog) :
        tickLog[i].op = "mark" =>
            \E j \in 1..(i - 1) :
                tickLog[j].op = "notify" /\ tickLog[j].id = tickLog[i].id

\* An alert fired, was notified and then marked.
C8_Witness ==
    /\ Len(tickLog) = 3
    /\ tickLog[2].op = "notify" /\ tickLog[2].ok
    /\ tickLog[3].op = "mark" /\ tickLog[3].ok

\* C9: a failed notify or mark of one alert does not end the tick: every alert
\* of the snapshot is evaluated, and one that fires is notified and marked.
C9_FailureIsolation ==
    /\ (pc = "done" /\ alerts # <<>>) => evals = Len(alerts)
    /\ pc = "fetch" => evals = idx - 1
    /\ (pc \in {"fetch", "done"} /\ tickLog # <<>> /\ tickLog[1] = Event("eval", tickLog[1].id, TRUE))
          => /\ Len(tickLog) = 3
             /\ tickLog[2].op = "notify" /\ tickLog[2].id = tickLog[1].id
             /\ tickLog[3].op = "mark" /\ tickLog[3].id = tickLog[1].id

\* The tick ended after the first alert's mark failed and the second alert
\* was notified and marked.
C9_Witness ==
    /\ pc = "done" /\ Len(alerts) = 2 /\ failed
    /\ alerts[1].id \in DOMAIN price_alerts
    /\ IsActiveRow(price_alerts[alerts[1].id])
    /\ tickLog = <<Event("eval", alerts[2].id, TRUE),
                   Event("notify", alerts[2].id, TRUE),
                   Event("mark", alerts[2].id, TRUE)>>

\* C10: one price fetch sends at most 3 requests; after 3 failures it returns
\* no sample, the alert is skipped and the tick goes on with the next alert.
C10_BoundedRetry ==
    /\ attempt < 3
    /\ \A i \in 1..Len(prices) : prices[i].attempts <= 3
    /\ \A e \in evald :
          /\ \A i \in 1..Len(e.samples) :
                /\ e.samples[i].attempts <= 3
                /\ e.samples[i].price = None => e.samples[i].attempts \in {0, 3}
          /\ ((IsPrice(e) \/ IsPairDepeg(e))
                /\ \E i \in 1..Len(e.samples) : e.samples[i].price = None) =>
                /\ ~e.fired
                /\ LeftActive(e)
                /\ pc = "done" => e.alert.id = alerts[Len(alerts)].id

\* A Price alert's fetch failed three times and the loop is at the next alert.
C10_Witness ==
    \E e \in evald :
        /\ IsPrice(e) /\ e.samples = <<[price |-> None, attempts |-> 3]>>
        /\ pc = "fetch" /\ idx = 2

\* C11: a fetch whose first two requests fail is not given up: the third
\* request is sent, and when it is answered the sample reaches the alert,
\* which is evaluated in the running tick and notified when its condition holds.
C11_RetryResilience ==
    /\ \A i \in 1..Len(prices) :
          (prices[i].price = None /\ prices[i].attempts > 0) => prices[i].attempts >= 3
    /\ \A e \in evald :
          /\ \A i \in 1..Len(e.samples) :
                (e.samples[i].price = None /\ e.samples[i].attempts > 0)
                    => e.samples[i].attempts >= 3
          /\ (IsPrice(e) /\ e.samples[1].attempts = 3 /\ IsSome(e.samples[1].price)) =>
                LET p == Unwrap(e.samples[1].price)
                    t == e.alert.alert_type
                    holds == IF t.condition = "Above" THEN p > t.target_price
                                                      ELSE p < t.target_price
                IN /\ \E i \in 1..Len(alerts) : alerts[i] = e.alert
                   /\ tickLog # <<>> /\ tickLog[1] = Event("eval", e.alert.id, holds)
                   /\ e.fired = holds
                   /\ holds => pc = "notify" \/ Len(tickLog) > 1

\* The third request of a Price alert's fetch was answered 1.02 after two
\* failures, and the alert is being notified.
C11_Witness ==
    \E e \in evald :
        /\ IsPrice(e) /\ e.alert.alert_type.condition = "Above"
        /\ e.samples = <<[price |-> Some(1020), attempts |-> 3]>>
        /\ e.fired /\ pc = "notify"

\* The number a decimal text denotes, in thousandths.
NumberOf(text) ==
    CASE text = "1.02" -> 1020
      [] text = "1" -> 1000
      [] text = "2" -> 2000

\* The state the chat of the last update had before it, when it had one of
\* the given wizard at the given step.
WasAt(l, kind, step) ==
    \E st \in l.before : st.kind = kind /\ st.step = step

\* The row the last update added to price_alerts.
SavedRow(l) == price_alerts[CHOOSE id \in l.saved : TRUE]

\* The one alert the last update saved is an active alert of the chat's user
\* with the given symbol and type.
SavedExactly(l, symbol, alert_type) ==
    /\ Cardinality(l.saved) = 1
    /\ \E u \in Users :
          /\ u.telegram_chat_id = Some(l.chat)
          /\ SavedRow(l).user_id = u.id
    /\ SavedRow(l).symbol = symbol
    /\ SavedRow(l).alert_type = alert_type
    /\ IsActiveRow(SavedRow(l))

\* C12: the Price wizard, when every call succeeds, goes from its start to
\* SelectSymbol, on a symbol to EnterPrice, on a number to SelectCondition, and
\* on above / below saves an alert with exactly the symbol, the price and the
\* condition collected, after which the chat has no conversation state.
C12_PriceWizardHappyPath ==
    \A l \in last :
        LET after == get_user_state(user_states, l.chat)
            st == Unwrap(l.before)
        IN l.result = "Ok" =>
            /\ l.op = "create_price_alert" =>
                  after = Some(PriceState("SelectSymbol", None, None, None))
            /\ (l.op = "symbol_" /\ WasAt(l, "CreatingPriceAlert", "SelectSymbol")) =>
                  after = Some(PriceState("EnterPrice", Some(l.input), None, None))
            /\ (l.op = "message" /\ WasAt(l, "CreatingPriceAlert", "EnterPrice")
                    /\ l.input \in NumericTexts) =>
                  after = Some(PriceState("SelectCondition", st.symbol,
                                          Some(NumberOf(l.input)), None))
            /\ (l.op = "condition_" /\ WasAt(l, "CreatingPriceAlert", "SelectCondition")
                    /\ IsSome(st.symbol) /\ IsSome(st.target_price)
                    /\ l.input \in {"above", "below"} /\ l.reply # "error") =>
                  /\ SavedExactly(l, Unwrap(st.symbol),
                         PriceType(Unwrap(st.target_price),
                                   IF l.input = "above" THEN "Above" ELSE "Below"))
                  /\ after = None

\* BTC, then 2, then below: the alert BTC below 2.0 is stored and the chat
\* has no state.
C12_Witness ==
    \E l \in last :
        /\ l.op = "condition_" /\ l.input = "below" /\ l.result = "Ok"
        /\ l.before = Some(PriceState("SelectCondition", Some("BTC"), Some(2000), None))
        /\ l.saved # {}
        /\ SavedRow(l).symbol = "BTC"
        /\ SavedRow(l).alert_type = PriceType(2000, "Below")
        /\ l.chat \notin DOMAIN user_states

\* The state of the chat of the last update is what it was before it.
StateKept(l) == get_user_state(user_states, l.chat) = l.before

\* Texts the validation of a price or a ratio lets pass: the decimal numbers,
\* and NaN, which str::parse::<f64> reads as a number.
ValidTexts == NumericTexts \cup {"NaN"}

C14_AtomicCompletion ==
    \A l \in last :
        l.op \in {"condition_", "pairdiff_", "depegdiff_"} =>
            \/ l.saved # {} /\ get_user_state(user_states, l.chat) = None
            \/ l.saved = {} /\ StateKept(l)

\* The first step of the wizard an update starts, with every field empty.
FirstStep(op) ==
    CASE op = "create_price_alert" -> PriceState("SelectSymbol", None, None, None)
      [] op = "create_depeg_alert" -> DepegState("SelectSymbol", None, None, None, None)
      [] op = "create_pair_alert" -> PairState("SelectToken1", None, None, None, None)

Starts == {"create_price_alert", "create_depeg_alert", "create_pair_alert"}

\* C15: starting a wizard replaces whatever state the chat had by the first
\* step of the new wizard with all fields empty, and saves no alert; when the
\* write of the state fails the old state is left whole.
C15_StartOverwrites ==
    \A l \in last :
        l.op \in Starts =>
            /\ l.saved = {}
            /\ get_user_state(user_states, l.chat) \in {Some(FirstStep(l.op)), l.before}
            /\ (l.result = "Ok" \/ l.reply = "prompt") =>
                  get_user_state(user_states, l.chat) = Some(FirstStep(l.op))

\* The Depeg wizard was started by a chat that stood at SelectCondition of a
\* Price wizard with BTC and 2.0 collected.
C15_Witness ==
    \E l \in last :
        /\ l.op = "create_depeg_alert" /\ l.result = "Ok"
        /\ l.before = Some(PriceState("SelectCondition", Some("BTC"), Some(2000), None))
        /\ user_states[l.chat] = DepegState("SelectSymbol", None, None, None, None)
        /\ price_alerts = <<>>

\* C16: an input that advances a wizard, sent by a chat without conversation
\* state, creates no state and no alert, and the chat is told to start a
\* wizard first.
C16_AdvanceWithoutState ==
    \A l \in last :
        (l.op \notin Starts /\ l.before = None) =>
            /\ l.saved = {}
            /\ get_user_state(user_states, l.chat) = None
            /\ l.reply = "start_first"

\* C17: from every conversation state an update exists that clears the
\* chat's state and saves no alert.
C17_CancelAvailable ==
    \A chat \in DOMAIN user_states :
        ENABLED (/\ WizardNext
                 /\ chat \notin DOMAIN user_states'
                 /\ price_alerts' = price_alerts)

\* C18: a symbol or a pair outside the configured ones is refused: the
\* chat's state is left as it was.
C18_UnsupportedSelection ==
    \A l \in last :
        /\ (l.op = "symbol_" /\ l.input \notin SupportedSymbols) => StateKept(l)
        /\ (l.op = "pair_" /\ l.input \notin SupportedPairs) => StateKept(l)

\* C19: the Depeg wizard, when every call succeeds, goes from its start to
\* SelectSymbol and on a symbol to EnterDifferential; the differential chosen
\* then saves a Depeg alert on that symbol with target price 1.0, that
\* differential and the exchanges binance and coinbase, and the chat has no
\* conversation state.
C19_DepegWizard ==
    \A l \in last :
        LET after == get_user_state(user_states, l.chat)
            st == Unwrap(l.before)
        IN l.result = "Ok" =>
            /\ l.op = "create_depeg_alert" =>
                  after = Some(DepegState("SelectSymbol", None, None, None, None))
            /\ (l.op = "symbol_" /\ WasAt(l, "CreatingDepegAlert", "SelectSymbol")) =>
                  after = Some(DepegState("EnterDifferential", Some(l.input),
                                          Some(1000), None, None))
            /\ (l.op = "depegdiff_" /\ WasAt(l, "CreatingDepegAlert", "EnterDifferential")
                    /\ l.input \in NumericTexts /\ l.reply # "error") =>
                  /\ SavedExactly(l, Unwrap(st.symbol),
                         DepegType(1000, NumberOf(l.input) \div 1000,
                                   <<"binance", "coinbase">>))
                  /\ after = None

\* USDT, then 1%: the Depeg alert on USDT is stored and the chat has no state.
C19_Witness ==
    \E l \in last :
        /\ l.op = "depegdiff_" /\ l.input = "1" /\ l.result = "Ok"
        /\ WasAt(l, "CreatingDepegAlert", "EnterDifferential")
        /\ l.saved # {}
        /\ SavedRow(l).symbol = "USDT"
        /\ SavedRow(l).alert_type = DepegType(1000, 1, <<"binance", "coinbase">>)
        /\ l.chat \notin DOMAIN user_states

\* The two tokens a pair_ callback names.
TokensOf(data) ==
    CASE data = "BTC_USDT" -> <<"BTC", "USDT">>
      [] data = "DOGE_SHIB" -> <<"DOGE", "SHIB">>

\* C20: the PairDepeg wizard, when every call succeeds, goes from its start
\* to the pair selection, on a pair to EnterRatio and on a number to
\* EnterDifferential; the differential chosen then saves a PairDepeg alert
\* with exactly the two tokens, the ratio and the differential collected, and
\* the chat has no conversation state.
C20_PairWizard ==
    \A l \in last :
        LET after == get_user_state(user_states, l.chat)
            st == Unwrap(l.before)
        IN l.result = "Ok" =>
            /\ l.op = "create_pair_alert" =>
                  after = Some(PairState("SelectToken1", None, None, None, None))
            /\ (l.op = "pair_" /\ WasAt(l, "CreatingPairAlert", "SelectToken1")
                    /\ l.input \in {"BTC_USDT", "DOGE_SHIB"}) =>
                  after = Some(PairState("EnterRatio", Some(TokensOf(l.input)[1]),
                                         Some(TokensOf(l.input)[2]), None, None))
            /\ (l.op = "message" /\ WasAt(l, "CreatingPairAlert", "EnterRatio")
                    /\ l.input \in NumericTexts) =>
                  after = Some(PairState("EnterDifferential", st.token1, st.token2,
                                         Some(NumberOf(l.input)), None))
            /\ (l.op = "pairdiff_" /\ WasAt(l, "CreatingPairAlert", "EnterDifferential")
                    /\ IsSome(st.token1) /\ IsSome(st.token2)
                    /\ IsSome(st.expected_ratio)
                    /\ l.input \in NumericTexts /\ l.reply # "error") =>
                  /\ SavedExactly(l, PairSymbol(Unwrap(st.token1), Unwrap(st.token2)),
                         PairDepegType(Unwrap(st.token1), Unwrap(st.token2),
                                       Unwrap(st.expected_ratio),
                                       NumberOf(l.input) \div 1000))
                  /\ after = None

\* BTC_USDT, then 1.02, then 1%: the PairDepeg alert is stored and the chat
\* has no state.
C20_Witness ==
    \E l \in last :
        /\ l.op = "pairdiff_" /\ l.input = "1" /\ l.result = "Ok"
        /\ l.saved # {}
        /\ SavedRow(l).symbol = "BTC/USDT"
        /\ SavedRow(l).alert_type = PairDepegType("BTC", "USDT", 1020, 1)
        /\ l.chat \notin DOMAIN user_states

\* The fields a conversation state of the given wizard carries.
FieldsOf(st) ==
    CASE st.kind = "CreatingPriceAlert" -> {"symbol", "target_price", "condition"}
      [] st.kind = "CreatingDepegAlert" ->
             {"symbol", "target_price", "differential", "exchanges"}
      [] st.kind = "CreatingPairAlert" ->
             {"token1", "token2", "expected_ratio", "differential"}

\* C21: an update that does not start a wizard, whether it succeeds or fails,
\* either ends the run (the chat's state is cleared and an alert is saved) or
\* leaves the chat in the same wizard with every field that was set before
\* still set to the same value.
C21_FieldsKept ==
    \A l \in last :
        (l.op \notin Starts /\ l.before # None) =>
            LET after == get_user_state(user_states, l.chat)
                st == Unwrap(l.before)
            IN \/ after = None /\ l.saved # {}
               \/ /\ after # None
                  /\ Unwrap(after).kind = st.kind
                  /\ \A f \in FieldsOf(st) :
                        IsSome(st[f]) => Unwrap(after)[f] = st[f]

\* A ratio was accepted at EnterRatio of a Pair wizard that held BTC and
\* USDT: the chat stands at EnterDifferential and still holds both tokens.
C21_Witness ==
    \E l \in last :
        /\ l.op = "message" /\ l.input = "1.02" /\ l.result = "Ok"
        /\ l.before = Some(PairState("EnterRatio", Some("BTC"), Some("USDT"), None, None))
        /\ user_states[l.chat] = PairState("EnterDifferential", Some("BTC"),
                                           Some("USDT"), Some(1020), None)

\* C22: a failed verify_bot does not end start: the monitor never stands at
\* the return of start with the error of the check, it goes on to its loop.
C22_AdvisoryVerify == pc # "returned"

\* C23: when the shutdown signal has ended the monitor task, the tick it cut
\* short does not stand between a delivered notification and the write that
\* marks the alert: an alert notified last is no longer active.
C23_SafePointShutdown ==
    (pc = "cancelled" /\ tickLog # <<>>) =>
        LET e == tickLog[Len(tickLog)]
        IN (e.op = "notify" /\ e.ok /\ e.id \in DOMAIN price_alerts)
              => ~IsActiveRow(price_alerts[e.id])

\* A step that takes a tick of the interval.
TickTaken == elapsed /\ ~elapsed' /\ pc' \notin {"start", "cancelled"}

\* C24: a tick of the interval is taken only when check_all_alerts of the
\* tick before has returned and the loop is back at interval.tick(), also
\* when the next instant of the interval came while the tick was running.
C24_NoOverlap == [][TickTaken => pc = "idle"]_vars

\* A tick is still fetching at the instant the interval's next tick is due.
C24_Witness == pc = "fetch" /\ elapsed

\* C25: the request the loop sends next was not sent already, in the same
\* tick, for the alert it evaluated just before.
C25_OneFetchPerPair ==
    \A e \in evald :
        (pc = "fetch" /\ e.alert.id # Current.id) =>
            LET r == Requests(Current)[fidx]
            IN Accepted(r.symbol, r.exchange) =>
                  \A k \in 1..Len(e.samples) :
                      e.samples[k].attempts > 0 => Requests(e.alert)[k] # r

\* C26: the triggered_at of a stored alert, once set, keeps its value, and
\* it is set only by the mark of the alert the monitor loop is handling.
C26_TriggeredAtOnce ==
    [][\A id \in DOMAIN price_alerts \cap DOMAIN price_alerts' :
          LET a == price_alerts[id].triggered_at
              b == price_alerts'[id].triggered_at
          IN /\ IsSome(a) => b = a
             /\ (a = None /\ IsSome(b)) => (pc = "mark" /\ Current.id = id)]_vars

\* An alert triggered at instant 1 still says so while another alert is
\* being marked at instant 2.
C26_Witness ==
    /\ pc = "mark" /\ now = 2
    /\ \E id \in DOMAIN price_alerts :
          id # Current.id /\ price_alerts[id].triggered_at = Some(1)

\* A step in which mark_alert_triggered returns Ok.
MarkReturnsOk ==
    /\ pc = "mark"
    /\ tickLog' = Append(tickLog, Event("mark", Current.id, TRUE))

\* C27: a successful mark_alert_triggered(id) leaves the set of stored
\* alerts, every other alert, the user_id, symbol, alert_type and created_at
\* of the alert itself, and the user_states table as they were.
C27_MarkFrame ==
    [][MarkReturnsOk =>
          /\ DOMAIN price_alerts' = DOMAIN price_alerts
          /\ \A id \in DOMAIN price_alerts :
                IF id = Current.id
                THEN [price_alerts'[id] EXCEPT !.triggered_at = None,
                                               !.is_active = TRUE]
                         = [price_alerts[id] EXCEPT !.triggered_at = None,
                                                    !.is_active = TRUE]
                ELSE price_alerts'[id] = price_alerts[id]
          /\ user_states' = user_states]_vars

\* An alert saved at instant 1 was marked at instant 2 while another alert
\* and a conversation state were stored.
C27_Witness ==
    /\ Len(tickLog) = 3 /\ tickLog[3].op = "mark" /\ tickLog[3].ok
    /\ tickLog[3].id \in DOMAIN price_alerts
    /\ price_alerts[tickLog[3].id].created_at = 1
    /\ price_alerts[tickLog[3].id].triggered_at = Some(2)
    /\ Cardinality(DOMAIN price_alerts) = 2
    /\ user_states # <<>>

OwnerChats(alert) == {u.telegram_chat_id : u \in {v \in Users : v.id = alert.user_id}}

\* C29: a notification that was delivered went to the chat of the user whose
\* id is the alert's user_id.
C29_DeliveredToOwner ==
    \A i \in 1..Len(tickLog) : \A j \in 1..Len(alerts) :
        (tickLog[i] = Event("notify", alerts[j].id, TRUE)) =>
            \A chat \in recipient(alerts[j]) : Some(chat) \in OwnerChats(alerts[j])

C31_SessionsIndependent ==
    [][\A l \in last' :
          \A c \in (DOMAIN user_states \cup DOMAIN user_states') \ {l.chat} :
              get_user_state(user_states', c) = get_user_state(user_states, c)]_vars

\* The chat of user 2 has completed its Price wizard, its state is cleared,
\* and the chat of user 1 still stands at EnterRatio of its Pair wizard.
C31_Witness ==
    \E l \in last :
        /\ l.chat = 7 /\ l.op = "condition_" /\ l.saved # {}
        /\ 7 \notin DOMAIN user_states
        /\ get_user_state(user_states, 1)
              = Some(PairState("EnterRatio", Some("BTC"), Some("USDT"), None, None))

\* C32: in a tick send_alert_notification is called at most once for an
\* alert, whatever its type: no id occurs twice among the calls of the tick.
C32_OneNotificationPerTick ==
    \A i \in 1..Len(notified) : \A j \in 1..Len(notified) :
        notified[i] = notified[j] => i = j

\* A tick has ended in which a Depeg alert and a PairDepeg alert were both
\* notified, the first one without its mark being written.
C32_Witness ==
    /\ pc = "done" /\ Len(notified) = 2 /\ Len(alerts) = 2
    /\ {alerts[1].alert_type.type, alerts[2].alert_type.type} = {"Depeg", "PairDepeg"}
    /\ IsActiveRow(price_alerts[notified[1]])

\* The ids of the rows get_active_alerts returns.
ActiveIds(table) ==
    LET rows == get_active_alerts(table) IN {rows[i].id : i \in 1..Len(rows)}

\* C33: after mark_alert_triggered has failed for an alert, the alert's row,
\* when it is still stored, is the row the tick read (active, triggered_at
\* unset, nothing else changed; the snapshot is gone once the task is
\* cancelled), and get_active_alerts returns it again.
C33_MarkFailureKeepsAlert ==
    \A i \in 1..Len(tickLog) :
        LET id == tickLog[i].id
        IN (tickLog[i] = Event("mark", id, FALSE) /\ id \in DOMAIN price_alerts) =>
              /\ pc # "cancelled" => \E k \in 1..Len(alerts) : alerts[k] = price_alerts[id]
              /\ IsActiveRow(price_alerts[id])
              /\ price_alerts[id].triggered_at = None
              /\ id \in ActiveIds(price_alerts)

\* The notification of an alert was delivered, its mark failed, and the
\* tick has ended with the alert stored.
C33_Witness ==
    /\ pc = "done" /\ Len(tickLog) = 3
    /\ tickLog[2].op = "notify" /\ tickLog[2].ok
    /\ tickLog[3] = Event("mark", tickLog[2].id, FALSE)
    /\ tickLog[3].id \in DOMAIN price_alerts

\* The loop of start is running.
InLoop == pc \in {"idle", "fetch", "notify", "mark", "done"}

\* check_all_alerts has finished a tick in which get_active_alerts, a
\* notification or a mark failed.
TickFailed ==
    /\ pc = "done"
    /\ failed \/ tickLog = <<Event("get_active_alerts", 0, FALSE)>>

\* C34: once the loop of start runs it is left only by the shutdown, and
\* after a tick in which a call failed, get_active_alerts included, the loop
\* is back at interval.tick() and takes the next tick, unless it is shut down.
C34_LoopSurvivesFailure ==
    /\ [][InLoop => (InLoop' \/ pc' = "cancelled")]_vars
    /\ TickFailed ~> (pc = "idle" \/ pc = "cancelled")
    /\ (pc = "idle") ~> (pc \in {"fetch", "done", "cancelled"})

\* get_active_alerts has failed, check_all_alerts has returned its error,
\* and the interval's next tick is already due.
C34_Witness ==
    /\ pc = "done" /\ elapsed
    /\ tickLog = <<Event("get_active_alerts", 0, FALSE)>>

\* C35: get_price_from_exchange does not refuse a request for a symbol of
\* CONFIG.cryptocurrencies at a supported exchange: the source is asked, so
\* that its answer within the three attempts can be returned as the sample.
C35_ConfiguredSymbolAccepted ==
    pc = "fetch" =>
        LET r == Requests(Current)[fidx]
        IN (r.symbol \in cryptocurrencies /\ r.exchange \in supported_exchanges)
              => Accepted(r.symbol, r.exchange)

\* C36: binance and coinbase are both supported exchanges, so no request a
\* Depeg alert makes for one of its exchanges is refused as an unsupported
\* exchange.
C36_DepegVenuesSupported ==
    (pc = "fetch" /\ Current.alert_type.type = "Depeg") =>
        Requests(Current)[fidx].exchange \in supported_exchanges

\* C37: a delete request, from the bot's delete_ callback or from the API,
\* removes only alerts of the user it came from.
C37_DeleteOnlyOwn ==
    \A l \in last : \A row \in l.deleted : row.user_id \in l.users

\* C38: in every stored conversation state the step tells which fields are
\* set.  Price: symbol from EnterPrice on, target_price at SelectCondition.
\* Depeg: symbol and target_price at EnterDifferential.  Pair: both tokens
\* from EnterRatio on, expected_ratio at EnterDifferential.
C38_StepDeterminesFields ==
    \A chat \in DOMAIN user_states :
        LET st == user_states[chat]
        IN CASE st.kind = "CreatingPriceAlert" ->
                    /\ IsSome(st.symbol) <=> st.step \in {"EnterPrice", "SelectCondition"}
                    /\ IsSome(st.target_price) <=> st.step = "SelectCondition"
             [] st.kind = "CreatingDepegAlert" ->
                    /\ IsSome(st.symbol) <=> st.step = "EnterDifferential"
                    /\ IsSome(st.target_price) <=> st.step = "EnterDifferential"
             [] st.kind = "CreatingPairAlert" ->
                    /\ (IsSome(st.token1) /\ IsSome(st.token2))
                          <=> st.step \in {"EnterRatio", "EnterDifferential"}
                    /\ IsSome(st.token1) <=> IsSome(st.token2)
                    /\ IsSome(st.expected_ratio) <=> st.step = "EnterDifferential"

\* The wizard and the step at which a final input completes it.
FinalStep(op) ==
    CASE op = "condition_" -> <<"CreatingPriceAlert", "SelectCondition">>
      [] op = "pairdiff_" -> <<"CreatingPairAlert", "EnterDifferential">>
      [] op = "depegdiff_" -> <<"CreatingDepegAlert", "EnterDifferential">>

\* C39: a condition_, pairdiff_ or depegdiff_ input saves an alert only when
\* the chat's state is the matching wizard at its last step; at an earlier
\* step, in another wizard, or with no state left after the completion, it
\* saves nothing and leaves the chat's state as it was.
C39_FinalInputOnlyAtFinalStep ==
    \A l \in last :
        l.op \in {"condition_", "pairdiff_", "depegdiff_"} =>
            LET atFinal == WasAt(l, FinalStep(l.op)[1], FinalStep(l.op)[2])
            IN /\ l.saved # {} => atFinal
               /\ ~atFinal => (l.saved = {} /\ StateKept(l))

\* The chat has completed its Price wizard and sends the same condition
\* again: the one alert is stored, the chat has no state, nothing is saved.
C39_Witness ==
    \E l \in last :
        /\ l.op = "condition_" /\ l.input = "above" /\ l.result = "Ok"
        /\ l.before = None /\ l.saved = {}
        /\ Cardinality(DOMAIN price_alerts) = 1
        /\ user_states = <<>>

\* C40: when save_alert has returned Ok the alert it stored is active with
\* triggered_at unset, whatever is_active and triggered_at the alert handed
\* to it carried, and get_active_alerts returns it.
C40_SavedAlertIsActive ==
    \A l \in last :
        (l.op = "api_create_alert" /\ l.result = "CREATED") =>
            /\ Cardinality(l.saved) = 1
            /\ \A id \in l.saved :
                  /\ price_alerts[id].is_active
                  /\ price_alerts[id].triggered_at = None
                  /\ id \in ActiveIds(price_alerts)

\* The API was sent an alert body that says inactive and already triggered,
\* and the alert is stored.
C40_Witness ==
    \E l \in last :
        /\ l.op = "api_create_alert" /\ l.result = "CREATED"
        /\ ~l.input.is_active /\ l.input.triggered_at = Some(1)
        /\ l.saved # {}

====
